---- MODULE Spec2Model ----
(***************************************************************************)
(* A model of the SHT1x driver (src/SHT1x.cpp): the two-wire protocol      *)
(* primitives, the public read / request / parse operations built from     *)
(* them, and the calibration coefficients set by the constructor.          *)
(*                                                                         *)
(* Numbers.  Voltages are counted in quarter volts, so that the table      *)
(* thresholds 5, 4, 3.5, 3, 2.5 and the points between them are integers.  *)
(* A float produced by the conversions is the exact rational value/den;    *)
(* temperatures and offsets use den = Scale.  Rounding of the C++ floats   *)
(* is not modelled.  The millisecond counter is an unsigned 32-bit value   *)
(* kept as two 16-bit halves.                                              *)
(***************************************************************************)
EXTENDS Integers, Sequences, FiniteSets, TLC

VARIABLES
    voltage,          \* the constructor's voltage argument (quarter volts)
    intBits,          \* width of `int` in the build (16 on AVR, 32 on ARM)
    _dataPin,         \* member: data pin identifier
    _clockPin,        \* member: clock pin identifier
    _dataInputMode,   \* member: INPUT or INPUT_PULLUP
    _D1C, _D2C,       \* members: Celsius offset and slope
    _D1F, _D2F,       \* members: Fahrenheit offset and slope
    _temperatureRaw,  \* member: raw temperature of the last readInTemperature
    pins,             \* the host's pins: pin id -> [mode, level]
    call,             \* the public operation in progress ("none": idle)
    pc,               \* the position inside that operation
    trace,            \* pinMode / digitalWrite / digitalRead calls of the operation
    phases,           \* the primitives the operation has run, in order
    start,            \* waitForResultSHT's local: millis() at entry
    now,              \* the host's millisecond counter
    waitExit,         \* how the last waitForResultSHT left its loop
    acks,             \* the values sendCommandSHT assigned to its local ack
    sample,           \* the 16-bit pattern the data line presented to getData16SHT
    raw,              \* the int handed from the read-in to the conversion
    result,           \* the operation's return value
    previous          \* what the operation before this one returned and left

vars == << voltage, intBits, _dataPin, _clockPin, _dataInputMode,
           _D1C, _D2C, _D1F, _D2F, _temperatureRaw, pins, call, pc, trace,
           phases, start, now, waitExit, acks, sample, raw, result,
           previous >>

(***************************************************************************)
(* Bounds of the model.                                                    *)
(***************************************************************************)
\* largest advance of the millisecond counter between two reads of millis()
MaxTick == 2
\* voltages given to the constructor range over MinVoltage..MaxVoltage
MinVoltage == 8
MaxVoltage == 22

\* largest number of bits shiftIn is called with on its own
MaxBits == 9

(***************************************************************************)
(* The host environment: pins, levels, modes.                              *)
(***************************************************************************)
LOW == 0
HIGH == 1
Levels == {LOW, HIGH}
Bits == {0, 1}

\* the pin identifiers the instance is constructed with
DataPinArg == 2
ClockPinArg == 3

\* one call of the host's pin API
pinMode(pin, mode) == [op |-> "pinMode", pin |-> pin, val |-> mode]
digitalWrite(pin, level) == [op |-> "digitalWrite", pin |-> pin, val |-> level]
\* a digitalRead together with the level the line had when it was sampled
digitalRead(pin, level) == [op |-> "digitalRead", pin |-> pin, val |-> level]

\* the index of the last call of kind op on pin among calls (0: none)
LastCall(calls, op, pin) ==
    LET hits == {k \in 1..Len(calls) : calls[k].op = op /\ calls[k].pin = pin}
    IN  IF hits = {} THEN 0 ELSE CHOOSE k \in hits : \A h \in hits : h <= k

\* the pins after a sequence of API calls: each pin has the mode of the
\* last pinMode and the level of the last digitalWrite made on it
PinsAfter(p, calls) ==
    [q \in DOMAIN p |->
        LET m == LastCall(calls, "pinMode", q)
            w == LastCall(calls, "digitalWrite", q)
        IN  [mode  |-> IF m = 0 THEN p[q].mode ELSE calls[m].val,
             level |-> IF w = 0 THEN p[q].level ELSE calls[w].val]]

\* the pins the k-th call of a sequence of API calls finds, from pins p
PinsBefore(p, calls, k) == PinsAfter(p, SubSeq(calls, 1, k - 1))

(***************************************************************************)
(* Integer widths.                                                         *)
(***************************************************************************)
IntWidths == {16, 32}

RECURSIVE Pow2(_)
Pow2(n) == IF n = 0 THEN 1 ELSE 2 * Pow2(n - 1)

\* an int result of width w: two's complement wrap-around.  No value of
\* the driver reaches 2^31, so a 32-bit int never wraps.
WrapInt(x, w) ==
    IF w >= 32 THEN x
    ELSE LET m == Pow2(w)
             r == x % m
         IN  IF r >= m \div 2 THEN r - m ELSE r

\* conversion to uint8_t
Uint8(x) == x % 256

Bit(x, k) == (x \div Pow2(k)) % 2

\* bitwise OR of two ints of width w (w = 16: on the two's complement pattern)
RECURSIVE OrBits(_, _, _)
OrBits(a, b, n) ==
    IF n = 0 THEN 0
    ELSE 2 * OrBits(a \div 2, b \div 2, n - 1)
         + (IF a % 2 = 1 \/ b % 2 = 1 THEN 1 ELSE 0)

BitOr(a, b, w) ==
    IF w >= 32 THEN OrBits(a, b, 31)
    ELSE WrapInt(OrBits(a % Pow2(w), b % Pow2(w), w), w)

(***************************************************************************)
(* The protocol primitives.  Each is the sequence of host API calls the    *)
(* code makes (calls), given the levels the data line has when it is       *)
(* sampled, and the value the code computes from them.                     *)
(***************************************************************************)
INPUT == "INPUT"
INPUT_PULLUP == "INPUT_PULLUP"
OUTPUT == "OUTPUT"

\* the eight bits of a byte, most significant first
BitsOf(byte) == [i \in 1..8 |-> Bit(byte, 8 - i)]

\* the host's shiftOut(dataPin, clockPin, MSBFIRST, val): per bit, from bit 7
\* down to bit 0, the data line is set to the bit and the clock pulsed
RECURSIVE shiftOutFrom(_, _, _, _)
shiftOutFrom(dataPin, clockPin, val, i) ==
    IF i = 8 THEN << >>
    ELSE << digitalWrite(dataPin, Bit(val, 7 - i)),
            digitalWrite(clockPin, HIGH),
            digitalWrite(clockPin, LOW) >>
         \o shiftOutFrom(dataPin, clockPin, val, i + 1)

shiftOut(dataPin, clockPin, val) == shiftOutFrom(dataPin, clockPin, val, 0)

\* shiftIn's loop sampling with the clock low and leaving it high
RECURSIVE shiftInCalls_EndsHigh(_, _, _)
shiftInCalls_EndsHigh(dataPin, clockPin, bits) ==
    IF bits = << >> THEN << >>
    ELSE << digitalWrite(clockPin, LOW),
            digitalRead(dataPin, Head(bits)),
            digitalWrite(clockPin, HIGH) >>
         \o shiftInCalls_EndsHigh(dataPin, clockPin, Tail(bits))

\* shiftIn's loop: bits[i] is the level of the data line at the i-th sample
RECURSIVE shiftInCalls(_, _, _)
shiftInCalls(dataPin, clockPin, bits) ==
    IF bits = << >> THEN << >>
    ELSE << digitalWrite(clockPin, HIGH),
            digitalRead(dataPin, Head(bits)),
            digitalWrite(clockPin, LOW) >>
         \o shiftInCalls(dataPin, clockPin, Tail(bits))

\* shiftInAcc taking the first sample as the least significant bit
RECURSIVE shiftInAcc_LsbFirst(_, _, _)
shiftInAcc_LsbFirst(ret, bits, w) ==
    IF bits = << >> THEN ret
    ELSE WrapInt(Head(bits) + 2 * shiftInAcc_LsbFirst(ret, Tail(bits), w), w)

\* int ret = 0; per sample ret = ret*2 + digitalRead(...)
RECURSIVE shiftInAcc(_, _, _)
shiftInAcc(ret, bits, w) ==
    IF bits = << >> THEN ret
    ELSE shiftInAcc(WrapInt(ret * 2 + Head(bits), w), Tail(bits), w)

\* uint8_t shiftIn(_dataPin, _clockPin, _numBits), _numBits = Len(bits)
shiftIn(dataPin, clockPin, bits, w) ==
    [calls |-> shiftInCalls(dataPin, clockPin, bits),
     ret   |-> Uint8(shiftInAcc(0, bits, w))]

\* the commands of requestTemperature and requestHumidity
gTempCmd == 3
gHumidCmd == 5

\* sendCommandSHT returning at once when the first acknowledgment read is
\* not LOW
sendCommandSHT_ChecksAck(command, dataPin, clockPin, inMode, ack1, ack2) ==
    [calls |->
        << pinMode(dataPin, OUTPUT),
           pinMode(clockPin, OUTPUT),
           digitalWrite(dataPin, HIGH),
           digitalWrite(clockPin, HIGH),
           digitalWrite(dataPin, LOW),
           digitalWrite(clockPin, LOW),
           digitalWrite(clockPin, HIGH),
           digitalWrite(dataPin, HIGH),
           digitalWrite(clockPin, LOW) >>
        \o shiftOut(dataPin, clockPin, command)
        \o << digitalWrite(clockPin, HIGH),
              pinMode(dataPin, inMode),
              digitalRead(dataPin, ack1) >>
        \o (IF ack1 # LOW THEN << >>
            ELSE << digitalWrite(clockPin, LOW),
                    digitalRead(dataPin, ack2) >>),
     ack |-> IF ack1 # LOW THEN ack1 ELSE ack2]

\* sendCommandSHT with the data and clock writes that open the start
\* sequence exchanged
sendCommandSHT_ClockFirst(command, dataPin, clockPin, inMode, ack1, ack2) ==
    [calls |->
        << pinMode(dataPin, OUTPUT),
           pinMode(clockPin, OUTPUT),
           digitalWrite(clockPin, HIGH),
           digitalWrite(dataPin, HIGH),
           digitalWrite(dataPin, LOW),
           digitalWrite(clockPin, LOW),
           digitalWrite(clockPin, HIGH),
           digitalWrite(dataPin, HIGH),
           digitalWrite(clockPin, LOW) >>
        \o shiftOut(dataPin, clockPin, command)
        \o << digitalWrite(clockPin, HIGH),
              pinMode(dataPin, inMode),
              digitalRead(dataPin, ack1),
              digitalWrite(clockPin, LOW),
              digitalRead(dataPin, ack2) >>,
     ack |-> ack2]

\* sendCommandSHT(_command, _dataPin, _clockPin); ack1 and ack2 are the levels
\* of the data line at its two reads.  ack is the local's value at return.
sendCommandSHT(command, dataPin, clockPin, inMode, ack1, ack2) ==
    [calls |->
        << pinMode(dataPin, OUTPUT),
           pinMode(clockPin, OUTPUT),
           digitalWrite(dataPin, HIGH),
           digitalWrite(clockPin, HIGH),
           digitalWrite(dataPin, LOW),
           digitalWrite(clockPin, LOW),
           digitalWrite(clockPin, HIGH),
           digitalWrite(dataPin, HIGH),
           digitalWrite(clockPin, LOW) >>
        \o shiftOut(dataPin, clockPin, command)
        \o << digitalWrite(clockPin, HIGH),
              pinMode(dataPin, inMode),
              digitalRead(dataPin, ack1),
              digitalWrite(clockPin, LOW),
              digitalRead(dataPin, ack2) >>,
     ack |-> ack2]

\* getData16SHT pulsing the clock for its acknowledgment without having
\* driven the data line low
getData16SHT_AckDataHigh(dataPin, clockPin, inMode, hi, lo, w) ==
    LET first  == shiftIn(dataPin, clockPin, BitsOf(hi), w)
        second == shiftIn(dataPin, clockPin, BitsOf(lo), w)
        val    == WrapInt(first.ret * 256, w)
    IN  [calls |->
            << pinMode(dataPin, inMode),
               pinMode(clockPin, OUTPUT) >>
            \o first.calls
            \o << pinMode(dataPin, OUTPUT),
                  digitalWrite(dataPin, LOW),
                  digitalWrite(dataPin, HIGH),
                  digitalWrite(clockPin, HIGH),
                  digitalWrite(clockPin, LOW),
                  pinMode(dataPin, inMode) >>
            \o second.calls,
         ret |-> BitOr(val, second.ret, w)]

\* getData16SHT switching the data line back with pinMode(_dataPin, INPUT)
\* after its acknowledgment
getData16SHT_PlainInput(dataPin, clockPin, inMode, hi, lo, w) ==
    LET first  == shiftIn(dataPin, clockPin, BitsOf(hi), w)
        second == shiftIn(dataPin, clockPin, BitsOf(lo), w)
        val    == WrapInt(first.ret * 256, w)
    IN  [calls |->
            << pinMode(dataPin, inMode),
               pinMode(clockPin, OUTPUT) >>
            \o first.calls
            \o << pinMode(dataPin, OUTPUT),
                  digitalWrite(dataPin, HIGH),
                  digitalWrite(dataPin, LOW),
                  digitalWrite(clockPin, HIGH),
                  digitalWrite(clockPin, LOW),
                  pinMode(dataPin, INPUT) >>
            \o second.calls,
         ret |-> BitOr(val, second.ret, w)]

\* getData16SHT(_dataPin, _clockPin); hi and lo are the bytes the data line
\* presents, bit by bit, before and after the acknowledgment
getData16SHT(dataPin, clockPin, inMode, hi, lo, w) ==
    LET first  == shiftIn(dataPin, clockPin, BitsOf(hi), w)
        second == shiftIn(dataPin, clockPin, BitsOf(lo), w)
        val    == WrapInt(first.ret * 256, w)
    IN  [calls |->
            << pinMode(dataPin, inMode),
               pinMode(clockPin, OUTPUT) >>
            \o first.calls
            \o << pinMode(dataPin, OUTPUT),
                  digitalWrite(dataPin, HIGH),
                  digitalWrite(dataPin, LOW),
                  digitalWrite(clockPin, HIGH),
                  digitalWrite(clockPin, LOW),
                  pinMode(dataPin, inMode) >>
            \o second.calls,
         ret |-> BitOr(val, second.ret, w)]

\* skipCrcSHT without the switch of the data line to output
skipCrcSHT_KeepsInput(dataPin, clockPin) ==
    [calls |->
        << pinMode(clockPin, OUTPUT),
           digitalWrite(dataPin, HIGH),
           digitalWrite(clockPin, HIGH),
           digitalWrite(clockPin, LOW) >>]

\* skipCrcSHT pulsing the clock with the data line driven low, which
\* acknowledges the low byte
skipCrcSHT_AcksLowByte(dataPin, clockPin) ==
    [calls |->
        << pinMode(dataPin, OUTPUT),
           pinMode(clockPin, OUTPUT),
           digitalWrite(dataPin, LOW),
           digitalWrite(clockPin, HIGH),
           digitalWrite(clockPin, LOW) >>]

\* skipCrcSHT(_dataPin, _clockPin)
skipCrcSHT(dataPin, clockPin) ==
    [calls |->
        << pinMode(dataPin, OUTPUT),
           pinMode(clockPin, OUTPUT),
           digitalWrite(dataPin, HIGH),
           digitalWrite(clockPin, HIGH),
           digitalWrite(clockPin, LOW) >>]

(***************************************************************************)
(* The millisecond counter: unsigned 32-bit, as [hi, lo] with 16-bit       *)
(* halves, value hi * 65536 + lo.                                          *)
(***************************************************************************)
Half == Pow2(16)

U32(h, l) == [hi |-> h, lo |-> l]

\* t + d modulo 2^32, for 0 <= d < 65536
Add32(t, d) ==
    U32((t.hi + (t.lo + d) \div Half) % Half, (t.lo + d) % Half)

\* a - b modulo 2^32: the unsigned long difference millis() - start
Sub32(a, b) ==
    LET borrow == IF a.lo < b.lo THEN 1 ELSE 0
    IN  U32((a.hi - b.hi - borrow) % Half, (a.lo - b.lo) % Half)

\* t < n, for 0 <= n < 65536
Less32(t, n) == t.hi = 0 /\ t.lo < n

\* the timeout of the ready poll, in milliseconds.  The header that defines
\* it is not among the sources; the model takes a small positive value.
TIMEOUT_MILLIS == 3

\* KeepWaiting giving up one millisecond before the timeout
KeepWaiting_OneShort(t, s) == Less32(Sub32(t, s), TIMEOUT_MILLIS - 1)

\* KeepWaiting with the difference taken in a wider signed type, so that it
\* does not wrap around 2^32
KeepWaiting_NoWrap(t, s) ==
    \/ t.hi < s.hi
    \/ t.hi = s.hi /\ t.lo - s.lo < TIMEOUT_MILLIS
    \/ t.hi = s.hi + 1 /\ t.lo + Half - s.lo < TIMEOUT_MILLIS

\* waitForResultSHT's loop condition after a HIGH sample: keep polling
KeepWaiting(t, s) == Less32(Sub32(t, s), TIMEOUT_MILLIS)

\* values of millis() at the entry of waitForResultSHT
StartTimes ==
    { U32(0, 0), U32(0, Half - 1), U32(Half - 1, Half - 1) }

(***************************************************************************)
(* The calibration coefficients.  A member that the constructor has not    *)
(* assigned holds whatever the memory held: assigned = FALSE and an        *)
(* arbitrary value.  Values are in units of 1/Scale.                       *)
(***************************************************************************)
Scale == 84 * 1000

VALS_IN_TABLE == 5

\* the tables of _setConversionCoeffs; C arrays are indexed from 0
At(table, i) == table[i + 1]
\* in tenths of a degree
coeffsC == << 401, 398, 397, 396, 394 >>
coeffsF == << 402, 396, 395, 393, 389 >>
\* in quarter volts: 5, 4, 3.5, 3, 2.5
vals == << 20, 16, 14, 12, 10 >>

Volts(n) == 4 * n
DEFAULT_VOLTAGE == Volts(5)

\* (coeffA-coeffB)/valA*input+coeffB, coefficients in tenths, voltages in
\* quarter volts, the result in units of 1/Scale
_linearInterpolation(coeffA, coeffB, valA, input) ==
    ((coeffA - coeffB) * input * (Scale \div 10)) \div valA
    + coeffB * (Scale \div 10)

\* FirstInterval scanning the table from the low voltages to the high ones
FirstInterval_LowToHigh(v, i) ==
    LET hits == {j \in i..(VALS_IN_TABLE - 1) : v > At(vals, j)}
    IN  IF hits = {} THEN VALS_IN_TABLE
        ELSE CHOOSE j \in hits : \A h \in hits : h <= j

\* FirstInterval with the test voltage >= vals[i]
RECURSIVE FirstInterval_Inclusive(_, _)
FirstInterval_Inclusive(v, i) ==
    IF i >= VALS_IN_TABLE THEN VALS_IN_TABLE
    ELSE IF v >= At(vals, i) THEN i
    ELSE FirstInterval_Inclusive(v, i + 1)

\* the first i of the loop for (i=1; i<VALS_IN_TABLE; i++) with
\* voltage > vals[i]; VALS_IN_TABLE when the loop ends without a break
RECURSIVE FirstInterval(_, _)
FirstInterval(v, i) ==
    IF i >= VALS_IN_TABLE THEN VALS_IN_TABLE
    ELSE IF v > At(vals, i) THEN i
    ELSE FirstInterval(v, i + 1)

Assigned(x) == [assigned |-> TRUE, val |-> x]
Unassigned(x) == [assigned |-> FALSE, val |-> x]

\* _setConversionCoeffs(voltage) on an instance whose members hold mem
_setConversionCoeffs(v, mem) ==
    LET i == FirstInterval(v, 1)
    IN  [D2C |-> Assigned(Scale \div 100),
         D2F |-> Assigned((18 * Scale) \div 1000),
         D1C |-> IF i < VALS_IN_TABLE
                 THEN Assigned(- _linearInterpolation(At(coeffsC, i - 1),
                                   At(coeffsC, i), At(vals, i - 1), v))
                 ELSE mem.D1C,
         D1F |-> IF i < VALS_IN_TABLE
                 THEN Assigned(- _linearInterpolation(At(coeffsF, i - 1),
                                   At(coeffsF, i), At(vals, i - 1), v))
                 ELSE mem.D1F]

\* what an unassigned float or int member may hold
Indeterminate == {0, 6699}

\* voltages the constructor is called with
Voltages == MinVoltage..MaxVoltage

(***************************************************************************)
(* Return values.  An int or a float is value/den; the humidity keeps the  *)
(* terms of its formula, humidity = << T1 + T2*raw in 1/100000,            *)
(* raw, C2 + C3*raw in 1/10000000 >>, for                                  *)
(*   (temperature - 25.0) * (T1 + T2*raw) + C1 + raw * (C2 + C3*raw)       *)
(* where temperature = value/den.                                          *)
(***************************************************************************)
Void == [form |-> "void", value |-> 0, den |-> 1, humidity |-> << >>]
IntValue(x) == [form |-> "int", value |-> x, den |-> 1, humidity |-> << >>]
FloatValue(x, d) == [form |-> "float", value |-> x, den |-> d, humidity |-> << >>]

\* parseTemperatureC(raw): (raw * _D2C) + _D1C
parseTemperatureC(rawv, d2c, d1c) == FloatValue(rawv * d2c.val + d1c.val, Scale)

\* parseTemperatureF(raw): (raw * _D2F) + _D1F
parseTemperatureF(rawv, d2f, d1f) == FloatValue(rawv * d2f.val + d1f.val, Scale)

\* parseHumidity(raw), with temperature = parseTemperatureC(_temperatureRaw)
parseHumidity(rawv, tempRaw, d2c, d1c) ==
    [form |-> "float",
     value |-> parseTemperatureC(tempRaw, d2c, d1c).value,
     den |-> Scale,
     humidity |-> << 1000 + 8 * rawv, rawv, 405000 - 28 * rawv >>]

(***************************************************************************)
(* The driver instance and its public operations.                          *)
(***************************************************************************)
Composite == {"readTemperatureC", "readTemperatureF", "readHumidity"}
Requests == {"requestTemperature", "requestHumidity"}
ReadIns == {"readInTemperature", "readInHumidity"}
Parses == {"parseTemperatureC", "parseTemperatureF", "parseHumidity"}
Operations == Composite \cup Requests \cup ReadIns \cup Parses

\* the operations that reach requestTemperature / readInTemperature
ViaRequestTemperature ==
    {"readTemperatureC", "readTemperatureF", "requestTemperature"}
\* readInHumidity storing its value in _temperatureRaw as well
ViaReadInTemperature_AndHumidity ==
    {"readTemperatureC", "readTemperatureF", "readInTemperature",
     "readHumidity", "readInHumidity"}
ViaReadInTemperature ==
    {"readTemperatureC", "readTemperatureF", "readInTemperature"}

\* 16-bit patterns the data line presents to getData16SHT
RawSamples == {0, 6699, 32769, 65535}

\* raw values handed to the public parse functions
RawArgs == {0, 6699, -1}

NoSample == 0 - 1
Zero32 == U32(0, 0)

\* no operation has returned yet
NoPrevious ==
    [call |-> "none", sample |-> NoSample, result |-> Void, temperatureRaw |-> 0]

\* the state a constructor leaves: SHT1x(dataPin, clockPin) with the default
\* voltage and plain input, or SHT1x(dataPin, clockPin, voltage, intPullup)
Constructed(V) ==
    /\ voltage \in V
    /\ intBits \in IntWidths
    /\ _dataPin = DataPinArg
    /\ _clockPin = ClockPinArg
    /\ _dataInputMode \in {INPUT, INPUT_PULLUP}
    /\ \E gC \in Indeterminate, gF \in Indeterminate :
          LET c == _setConversionCoeffs(voltage,
                       [D1C |-> Unassigned(gC), D1F |-> Unassigned(gF)])
          IN  /\ _D1C = c.D1C
              /\ _D2C = c.D2C
              /\ _D1F = c.D1F
              /\ _D2F = c.D2F
    /\ _temperatureRaw \in Indeterminate
    /\ pins = [p \in {DataPinArg, ClockPinArg} |-> [mode |-> INPUT, level |-> LOW]]
    /\ call = "none"
    /\ pc = "idle"
    /\ trace = << >>
    /\ phases = << >>
    /\ start = Zero32
    /\ now = Zero32
    /\ waitExit = "none"
    /\ acks = << >>
    /\ sample = NoSample
    /\ raw = 0
    /\ result = Void
    /\ previous = NoPrevious

\* the voltages of the instances whose protocol runs are explored: the
\* default, and the lowest table voltage
DriverVoltages == {DEFAULT_VOLTAGE, At(vals, VALS_IN_TABLE - 1)}

Init == Constructed(DriverVoltages)

members == << voltage, intBits, _dataPin, _clockPin, _dataInputMode,
              _D1C, _D2C, _D1F, _D2F >>
timer == << start, now >>

\* NextPc with the transaction termination left out of the read-in
NextPc_SkipsCrc(op, at) ==
    IF at = "idle"
    THEN IF op \in Composite \cup Requests THEN "send"
         ELSE IF op \in ReadIns THEN "wait"
         ELSE "parse"
    ELSE IF at = "send" THEN IF op \in Composite THEN "wait" ELSE "done"
    ELSE IF at = "wait" THEN "poll"
    ELSE IF at = "poll" THEN "waited"
    ELSE IF at = "waited" THEN "getData"
    ELSE IF at = "getData" THEN IF op \in Composite THEN "parse" ELSE "done"
    ELSE "done"

\* the position an operation is at after the step at position `at`:
\*   readTemperatureC/F, readHumidity: request, read-in, parse
\*   readInTemperature / readInHumidity: wait, getData16SHT, skipCrcSHT
\*   waitForResultSHT: wait (entry), poll (the loop), waited (the return)
NextPc(op, at) ==
    IF at = "idle"
    THEN IF op \in Composite \cup Requests THEN "send"
         ELSE IF op \in ReadIns THEN "wait"
         ELSE "parse"
    ELSE IF at = "send" THEN IF op \in Composite THEN "wait" ELSE "done"
    ELSE IF at = "wait" THEN "poll"
    ELSE IF at = "poll" THEN "waited"
    ELSE IF at = "waited" THEN "getData"
    ELSE IF at = "getData" THEN "skipCrc"
    ELSE IF at = "skipCrc" THEN IF op \in Composite THEN "parse" ELSE "done"
    ELSE "done"

\* the command requestTemperature / requestHumidity sends
CommandOf(op) == IF op \in ViaRequestTemperature THEN gTempCmd ELSE gHumidCmd

\* the primitive's calls are made on the pins and recorded in the trace
Perform(calls) ==
    /\ pins' = PinsAfter(pins, calls)
    /\ trace' = trace \o calls

\* a caller invokes one of the operations ops on the idle instance
CallOp(ops) ==
    /\ pc = "idle"
    /\ \E op \in ops :
          /\ call' = op
          /\ pc' = NextPc(op, "idle")
          /\ IF op \in Parses THEN \E r \in RawArgs : raw' = r ELSE raw' = 0
    /\ UNCHANGED << members, previous, _temperatureRaw, pins, trace, phases, timer,
                    waitExit, acks, sample, result >>

Call == CallOp(Operations)

\* requestTemperature / requestHumidity: sendCommandSHT with the command
SendCommand ==
    /\ pc = "send"
    /\ \E ack1 \in Bits, ack2 \in Bits :
          LET r == sendCommandSHT(CommandOf(call), _dataPin, _clockPin,
                                  _dataInputMode, ack1, ack2)
          IN  /\ Perform(r.calls)
              /\ acks' = << ack1, ack2 >>
    /\ phases' = Append(phases, "sendCommandSHT")
    /\ pc' = NextPc(call, "send")
    /\ result' = Void
    /\ UNCHANGED << members, previous, _temperatureRaw, call, timer, waitExit, sample, raw >>

\* waitForResultSHT up to its loop: pinMode, start = millis()
WaitEnter ==
    /\ pc = "wait"
    /\ Perform(<< pinMode(_dataPin, _dataInputMode) >>)
    /\ \E t \in StartTimes : start' = t /\ now' = t
    /\ phases' = Append(phases, "waitForResultSHT")
    /\ pc' = NextPc(call, "wait")
    /\ UNCHANGED << members, previous, _temperatureRaw, call, waitExit, acks, sample,
                    raw, result >>

\* PollStep with a timeout that abandons the transaction
PollStep_AbortsOnTimeout(level, d) ==
    /\ pc = "poll"
    /\ IF level = LOW
       THEN /\ waitExit' = "ready"
            /\ pc' = NextPc(call, "poll")
            /\ UNCHANGED << start, now >>
       ELSE IF KeepWaiting(Add32(now, d), start)
       THEN /\ now' = Add32(now, d)
            /\ UNCHANGED << start, waitExit, pc >>
       ELSE /\ waitExit' = "timeout"
            /\ pc' = "done"
            /\ now' = Add32(now, d)
            /\ UNCHANGED start
    /\ UNCHANGED << members, previous, _temperatureRaw, pins, call, trace, phases, acks,
                    sample, raw, result >>

\* one evaluation of the loop condition
\*   digitalRead(_dataPin) && (millis()-start) < TIMEOUT_MILLIS
\* with the level read and the advance d of the counter since millis() was
\* last read; millis() is not read when the level is LOW.
PollStep(level, d) ==
    /\ pc = "poll"
    /\ IF level = LOW
       THEN /\ waitExit' = "ready"
            /\ pc' = NextPc(call, "poll")
            /\ UNCHANGED << start, now >>
       ELSE IF KeepWaiting(Add32(now, d), start)
       THEN /\ now' = Add32(now, d)
            /\ UNCHANGED << start, waitExit, pc >>
       ELSE /\ waitExit' = "timeout"
            /\ pc' = NextPc(call, "poll")
            /\ now' = Add32(now, d)
            /\ UNCHANGED start
    /\ UNCHANGED << members, previous, _temperatureRaw, pins, call, trace, phases, acks,
                    sample, raw, result >>

\* waitForResultSHT returns; its local start is gone, and the counter is
\* not followed outside the wait
WaitReturn ==
    /\ pc = "waited"
    /\ pc' = NextPc(call, "waited")
    /\ start' = Zero32
    /\ now' = Zero32
    /\ UNCHANGED << members, previous, _temperatureRaw, pins, call, trace,
                    phases, waitExit, acks, sample, raw, result >>

\* the data line reads LOW: the device is ready
PollReady == PollStep(LOW, 0)

\* the data line reads HIGH and the counter has not moved
PollSpin == PollStep(HIGH, 0)

\* the data line reads HIGH and the counter has advanced
PollTick == \E d \in 1..MaxTick : PollStep(HIGH, d)

\* GetData with the value read added to the cached raw temperature
GetData_AddsToCache ==
    /\ pc = "getData"
    /\ \E s \in RawSamples :
          LET r == getData16SHT(_dataPin, _clockPin, _dataInputMode,
                                s \div 256, s % 256, intBits)
          IN  /\ Perform(r.calls)
              /\ sample' = s
              /\ raw' = WrapInt(_temperatureRaw + r.ret, intBits)
              /\ _temperatureRaw' = IF call \in ViaReadInTemperature
                                    THEN WrapInt(_temperatureRaw + r.ret, intBits)
                                    ELSE _temperatureRaw
    /\ phases' = Append(phases, "getData16SHT")
    /\ pc' = NextPc(call, "getData")
    /\ UNCHANGED << members, previous, call, timer, waitExit, acks, result >>

\* getData16SHT; readInTemperature stores its value in _temperatureRaw
GetData ==
    /\ pc = "getData"
    /\ \E s \in RawSamples :
          LET r == getData16SHT(_dataPin, _clockPin, _dataInputMode,
                                s \div 256, s % 256, intBits)
          IN  /\ Perform(r.calls)
              /\ sample' = s
              /\ raw' = r.ret
              /\ _temperatureRaw' = IF call \in ViaReadInTemperature
                                    THEN r.ret ELSE _temperatureRaw
    /\ phases' = Append(phases, "getData16SHT")
    /\ pc' = NextPc(call, "getData")
    /\ UNCHANGED << members, previous, call, timer, waitExit, acks, result >>

\* skipCrcSHT, and the return of readInTemperature / readInHumidity
SkipCrc ==
    /\ pc = "skipCrc"
    /\ Perform(skipCrcSHT(_dataPin, _clockPin).calls)
    /\ phases' = Append(phases, "skipCrcSHT")
    /\ pc' = NextPc(call, "skipCrc")
    /\ result' = IF call = "readInTemperature" THEN IntValue(_temperatureRaw)
                 ELSE IF call = "readInHumidity" THEN FloatValue(raw, 1)
                 ELSE result
    /\ UNCHANGED << members, previous, _temperatureRaw, call, timer, waitExit, acks,
                    sample, raw >>

\* the conversion an operation applies to raw
Convert(op, rawv) ==
    IF op \in {"readTemperatureC", "parseTemperatureC"}
    THEN parseTemperatureC(rawv, _D2C, _D1C)
    ELSE IF op \in {"readTemperatureF", "parseTemperatureF"}
    THEN parseTemperatureF(rawv, _D2F, _D1F)
    ELSE parseHumidity(rawv, _temperatureRaw, _D2C, _D1C)

Parse ==
    /\ pc = "parse"
    /\ result' = Convert(call, raw)
    /\ phases' = Append(phases, "parse")
    /\ pc' = NextPc(call, "parse")
    /\ UNCHANGED << members, previous, _temperatureRaw, pins, call, trace, timer,
                    waitExit, acks, sample, raw >>

\* the operation returns to its caller
Return ==
    /\ pc = "done"
    /\ pc' = "idle"
    /\ call' = "none"
    /\ trace' = << >>
    /\ phases' = << >>
    /\ waitExit' = "none"
    /\ acks' = << >>
    /\ sample' = NoSample
    /\ raw' = 0
    /\ result' = Void
    /\ UNCHANGED << members, previous, _temperatureRaw, pins, timer >>

Next ==
    \/ Call
    \/ SendCommand
    \/ WaitEnter
    \/ PollReady
    \/ PollSpin
    \/ PollTick
    \/ WaitReturn
    \/ GetData
    \/ SkipCrc
    \/ Parse
    \/ Return

Spec == Init /\ [][Next]_vars

\* the busy-wait loop keeps running and the millisecond counter keeps
\* advancing while it runs
LiveSpec == Spec /\ WF_vars(PollTick)

(***************************************************************************)
(* Successive temperature reads: readTemperatureC is called again and      *)
(* again on the instance, and what each call returned and left in the      *)
(* cache is kept for comparison with the next.                             *)
(***************************************************************************)
CallReadTemperatureC == CallOp({"readTemperatureC"})

\* the operation returns to its caller, its outcome is remembered
ReturnRecorded ==
    /\ pc = "done"
    /\ previous' = [call |-> call, sample |-> sample, result |-> result,
                    temperatureRaw |-> _temperatureRaw]
    /\ pc' = "idle"
    /\ call' = "none"
    /\ trace' = << >>
    /\ phases' = << >>
    /\ waitExit' = "none"
    /\ acks' = << >>
    /\ sample' = NoSample
    /\ raw' = 0
    /\ result' = Void
    /\ UNCHANGED << members, _temperatureRaw, pins, timer >>

NextTwice ==
    \/ CallReadTemperatureC
    \/ SendCommand
    \/ WaitEnter
    \/ PollReady
    \/ PollSpin
    \/ PollTick
    \/ WaitReturn
    \/ GetData
    \/ SkipCrc
    \/ Parse
    \/ ReturnRecorded

SpecTwice == Init /\ [][NextTwice]_vars

(***************************************************************************)
(* The converter alone, for every voltage: instances constructed with any  *)
(* voltage of Voltages, and the public parse functions called on them.     *)
(***************************************************************************)
InitCal == Constructed(Voltages)

CallParse == CallOp(Parses)

NextCal ==
    \/ CallParse
    \/ Parse
    \/ Return

SpecCal == InitCal /\ [][NextCal]_vars

(***************************************************************************)
(* The loopback line: a byte is shifted out as the command is, the levels  *)
(* the data line has at the rising clock edges are kept by the line, and   *)
(* shiftIn(8) samples them.                                                *)
(***************************************************************************)
Bytes == 0..255

\* the level of the data line at each digitalWrite(clockPin, HIGH) of calls,
\* the data line being at level `level` before them
RECURSIVE ClockedLevels(_, _, _, _)
ClockedLevels(calls, dataPin, clockPin, level) ==
    IF calls = << >> THEN << >>
    ELSE LET c == Head(calls)
             rest == Tail(calls)
         IN  IF c.op = "digitalWrite" /\ c.pin = dataPin
             THEN ClockedLevels(rest, dataPin, clockPin, c.val)
             ELSE IF c.op = "digitalWrite" /\ c.pin = clockPin /\ c.val = HIGH
             THEN << level >> \o ClockedLevels(rest, dataPin, clockPin, level)
             ELSE ClockedLevels(rest, dataPin, clockPin, level)

InitLoop == Constructed({DEFAULT_VOLTAGE})

LoopCall ==
    /\ pc = "idle"
    /\ call' = "loopback"
    /\ pc' = "shiftOut"
    /\ \E b \in Bytes : raw' = b
    /\ UNCHANGED << members, previous, _temperatureRaw, pins, trace, phases, timer,
                    waitExit, acks, sample, result >>

LoopShiftOut ==
    /\ pc = "shiftOut"
    /\ Perform(<< pinMode(_dataPin, OUTPUT), pinMode(_clockPin, OUTPUT) >>
               \o shiftOut(_dataPin, _clockPin, raw))
    /\ phases' = Append(phases, "shiftOut")
    /\ pc' = "shiftIn"
    /\ UNCHANGED << members, previous, _temperatureRaw, call, timer, waitExit, acks,
                    sample, raw, result >>

LoopShiftIn ==
    /\ pc = "shiftIn"
    /\ LET bits == ClockedLevels(trace, _dataPin, _clockPin, LOW)
           r == shiftIn(_dataPin, _clockPin, bits, intBits)
       IN  /\ Perform(<< pinMode(_dataPin, _dataInputMode) >> \o r.calls)
           /\ result' = IntValue(r.ret)
    /\ phases' = Append(phases, "shiftIn")
    /\ pc' = "done"
    /\ UNCHANGED << members, previous, _temperatureRaw, call, timer, waitExit, acks,
                    sample, raw >>

NextLoop ==
    \/ LoopCall
    \/ LoopShiftOut
    \/ LoopShiftIn
    \/ Return

SpecLoop == InitLoop /\ [][NextLoop]_vars

(***************************************************************************)
(* shiftIn alone: a caller that has set the data line to the input mode    *)
(* and the clock line to output, as getData16SHT does, calls               *)
(* shiftIn(_dataPin, _clockPin, numBits) for a number of bits up to        *)
(* MaxBits, the data line presenting any levels.  The argument is kept in  *)
(* raw.                                                                    *)
(***************************************************************************)
ShiftInCall ==
    /\ pc = "idle"
    /\ call' = "shiftIn"
    /\ pc' = "clocking"
    /\ \E n \in 0..MaxBits : raw' = n
    /\ Perform(<< pinMode(_dataPin, _dataInputMode), pinMode(_clockPin, OUTPUT) >>)
    /\ UNCHANGED << members, previous, _temperatureRaw, phases, timer,
                    waitExit, acks, sample, result >>

ShiftInRun ==
    /\ pc = "clocking"
    /\ \E bits \in [1..raw -> Bits] :
          LET r == shiftIn(_dataPin, _clockPin, bits, intBits)
          IN  /\ Perform(r.calls)
              /\ result' = IntValue(r.ret)
    /\ phases' = Append(phases, "shiftIn")
    /\ pc' = "done"
    /\ UNCHANGED << members, previous, _temperatureRaw, call, timer, waitExit,
                    acks, sample, raw >>

NextShift ==
    \/ ShiftInCall
    \/ ShiftInRun
    \/ Return

SpecShift == InitLoop /\ [][NextShift]_vars

(***************************************************************************)
(* Reference values for the properties below.                              *)
(***************************************************************************)
\* the primitives each operation runs, in order
PhasesOf(op) ==
    IF op \in Composite
    THEN << "sendCommandSHT", "waitForResultSHT", "getData16SHT",
            "skipCrcSHT", "parse" >>
    ELSE IF op \in Requests THEN << "sendCommandSHT" >>
    ELSE IF op \in ReadIns
    THEN << "waitForResultSHT", "getData16SHT", "skipCrcSHT" >>
    ELSE << "parse" >>

IsPrefix(a, b) == Len(a) <= Len(b) /\ a = SubSeq(b, 1, Len(a))

\* the API calls of one primitive of op, the acknowledgment reads giving a
\* and the data line presenting the pattern s
PhaseCalls(ph, op, a, s) ==
    IF ph = "sendCommandSHT"
    THEN sendCommandSHT(CommandOf(op), _dataPin, _clockPin, _dataInputMode,
                        a[1], a[2]).calls
    ELSE IF ph = "waitForResultSHT"
    THEN << pinMode(_dataPin, _dataInputMode) >>
    ELSE IF ph = "getData16SHT"
    THEN getData16SHT(_dataPin, _clockPin, _dataInputMode,
                      s \div 256, s % 256, intBits).calls
    ELSE IF ph = "skipCrcSHT"
    THEN skipCrcSHT(_dataPin, _clockPin).calls
    ELSE << >>

\* the API calls of the primitives phs of op, one after the other
RECURSIVE CallsOf(_, _, _, _)
CallsOf(phs, op, a, s) ==
    IF phs = << >> THEN << >>
    ELSE PhaseCalls(Head(phs), op, a, s) \o CallsOf(Tail(phs), op, a, s)

\* a sequence of API calls without the levels its reads returned
Blank(calls) ==
    [k \in 1..Len(calls) |->
        IF calls[k].op = "digitalRead"
        THEN digitalRead(calls[k].pin, LOW) ELSE calls[k]]

\* the value getData16SHT returns for the pattern s
RawOf(s) ==
    getData16SHT(_dataPin, _clockPin, _dataInputMode,
                 s \div 256, s % 256, intBits).ret

\* what op returns when getData16SHT has returned r
ReturnOf(op, r) ==
    IF op \in Requests THEN Void
    ELSE IF op = "readInTemperature" THEN IntValue(r)
    ELSE IF op = "readInHumidity" THEN FloatValue(r, 1)
    ELSE Convert(op, r)

AfterWait == {"waited", "getData", "skipCrc", "parse", "done"}

(***************************************************************************)
(* C1.  readTemperatureC, readTemperatureF and readHumidity run            *)
(* sendCommandSHT, waitForResultSHT, getData16SHT, skipCrcSHT and the      *)
(* conversion once each and in this order, whatever the data line reads:   *)
(* at every point the primitives run so far are a prefix of that list,     *)
(* the line activity so far is that of exactly these primitives, and the   *)
(* operation returns only when all five are done.                          *)
(***************************************************************************)
C1_PhasesOnceInOrder ==
    call \in Composite =>
        /\ IsPrefix(phases, PhasesOf(call))
        /\ trace = CallsOf(phases, call, acks, sample)
        /\ (pc = "done" => phases = PhasesOf(call))
        /\ (pc = "parse" => Len(phases) = 4)
        /\ (result # Void => phases = PhasesOf(call))

C1_Witness ==
    /\ call = "readHumidity"
    /\ pc = "done"
    /\ waitExit = "timeout"
    /\ acks = << HIGH, HIGH >>
    /\ sample = 65535

(***************************************************************************)
(* C3.  A ready-poll timeout is silent: after waitForResultSHT has left    *)
(* its loop by the timeout, the read-in goes on with getData16SHT and      *)
(* skipCrcSHT, once each, nothing is sent or polled again, and the value   *)
(* returned (and the raw temperature cached) is the one a successful       *)
(* transaction returns for the same pattern on the data line.              *)
(***************************************************************************)
C3_TimeoutIsSilent ==
    waitExit = "timeout" =>
        /\ pc \in AfterWait
        /\ IsPrefix(phases, PhasesOf(call))
        /\ (pc = "done" =>
              /\ phases = PhasesOf(call)
              /\ trace = CallsOf(phases, call, acks, sample)
              /\ result = ReturnOf(call, RawOf(sample))
              /\ (call \in ViaReadInTemperature => _temperatureRaw = RawOf(sample)))

C3_Witness ==
    /\ waitExit = "timeout"
    /\ pc = "done"
    /\ call = "readInTemperature"
    /\ sample = 6699
    /\ result = IntValue(6699)

StartSequence ==
    << pinMode(_dataPin, OUTPUT),
       pinMode(_clockPin, OUTPUT),
       digitalWrite(_dataPin, HIGH),
       digitalWrite(_clockPin, HIGH),
       digitalWrite(_dataPin, LOW),
       digitalWrite(_clockPin, LOW),
       digitalWrite(_clockPin, HIGH),
       digitalWrite(_dataPin, HIGH),
       digitalWrite(_clockPin, LOW) >>

StartsCommand(calls, cmd) ==
    /\ Len(calls) > Len(StartSequence)
    /\ SubSeq(calls, 1, Len(StartSequence)) = StartSequence
    /\ calls[Len(StartSequence) + 1] = digitalWrite(_dataPin, Bit(cmd, 7))

C5_StartSequence ==
    /\ (phases # << >> /\ Head(phases) = "sendCommandSHT") =>
          StartsCommand(trace, CommandOf(call))
    /\ (pc = "send" /\ call = "requestTemperature") =>
          \A cmd \in Bytes, a \in Bits :
             StartsCommand(sendCommandSHT(cmd, _dataPin, _clockPin,
                                          _dataInputMode, a, a).calls, cmd)

C5_Witness ==
    /\ call = "requestHumidity"
    /\ pc = "done"
    /\ phases = << "sendCommandSHT" >>
    /\ Len(trace) > Len(StartSequence)

(***************************************************************************)
(* C2.  waitForResultSHT always returns.  While it polls, the counter is   *)
(* less than TIMEOUT_MILLIS past the value read at entry, modulo 2^32, so  *)
(* the loop is left no later than the read of millis() that finds the      *)
(* timeout elapsed; and, the counter advancing, every poll ends, for       *)
(* every starting value, also those from which the counter wraps around.   *)
(***************************************************************************)
C2_WaitReturns ==
    /\ [](pc = "poll" => Less32(Sub32(now, start), TIMEOUT_MILLIS))
    /\ ((pc = "poll") ~> (pc = "waited"))

\* the counter has wrapped around 2^32 during the poll, which is one
\* millisecond short of its timeout
C2_Witness ==
    /\ pc = "poll"
    /\ start = U32(Half - 1, Half - 1)
    /\ now = U32(0, TIMEOUT_MILLIS - 2)

(***************************************************************************)
(* C6.  getData16SHT returns, for every 16-bit pattern on the data line,   *)
(* the unsigned value 256*H + L in 0..65535, H the byte sampled first and  *)
(* L the byte sampled after the acknowledgment, and readInTemperature      *)
(* returns and caches exactly that value.                                  *)
(***************************************************************************)
C6_RawIsUnsignedWord ==
    sample # NoSample =>
        LET H == sample \div 256
            L == sample % 256
        IN  /\ raw = 256 * H + L
            /\ raw \in 0..65535
            /\ (call \in ViaReadInTemperature => _temperatureRaw = 256 * H + L)
            /\ (call = "readInTemperature" /\ pc = "done" =>
                  result = IntValue(256 * H + L))

(***************************************************************************)
(* C7.  Bit-order round trip: a byte shifted out most significant bit      *)
(* first, the data line set to the bit and the clock pulsed high then      *)
(* low, and shifted in with shiftIn(8) from the loopback line, is the      *)
(* byte that was shifted out.                                              *)
(***************************************************************************)
C7_LoopbackRoundTrip ==
    (call = "loopback" /\ pc = "done") =>
        /\ result = IntValue(raw)
        /\ ClockedLevels(trace, _dataPin, _clockPin, LOW)
             = BitsOf(raw) \o [i \in 1..8 |-> Bit(raw, 0)]

C7_Witness ==
    /\ call = "loopback"
    /\ pc = "done"
    /\ raw = 163
    /\ result = IntValue(163)

(***************************************************************************)
(* C8.  readHumidity never starts a temperature transaction and never      *)
(* changes the cached raw temperature: no step of readHumidity changes     *)
(* _temperatureRaw, which only the getData16SHT step of a temperature      *)
(* read-in writes; the one command readHumidity shifts out is 0b00000101   *)
(* and not 0b00000011; and the temperature term of its result is           *)
(* parseTemperatureC of the cached _temperatureRaw.                        *)
(***************************************************************************)
CommandCalls(calls) ==
    SubSeq(calls, Len(StartSequence) + 1, Len(StartSequence) + 24)

C8_HumidityKeepsTemperature ==
    /\ [][ /\ (call = "readHumidity" => _temperatureRaw' = _temperatureRaw)
           /\ (_temperatureRaw' # _temperatureRaw =>
                 call \in {"readTemperatureC", "readTemperatureF",
                           "readInTemperature"} /\ pc = "getData") ]_vars
    /\ [](call = "readHumidity" =>
            /\ IsPrefix(phases, PhasesOf("readHumidity"))
            /\ (phases # << >> =>
                  /\ CommandCalls(trace) = shiftOut(_dataPin, _clockPin, 5)
                  /\ CommandCalls(trace) # shiftOut(_dataPin, _clockPin, 3))
            /\ (pc = "done" =>
                  /\ result.value = _temperatureRaw * _D2C.val + _D1C.val
                  /\ result.den = Scale
                  /\ result.humidity =
                        << 1000 + 8 * raw, raw, 405000 - 28 * raw >>))

\* a humidity read on an instance whose last temperature read cached 65535
C8_Witness ==
    /\ call = "readHumidity"
    /\ pc = "done"
    /\ _temperatureRaw = 65535
    /\ sample = 6699

(***************************************************************************)
(* C9.  For every supply voltage given at construction, all four           *)
(* calibration coefficients have been assigned by the constructor when a   *)
(* conversion runs.                                                        *)
(***************************************************************************)
C9_CoefficientsAssigned ==
    (pc \in {"parse", "done"} /\ "parse" \in {PhasesOf(call)[k] : k \in 1..Len(PhasesOf(call))}) =>
        /\ _D1C.assigned
        /\ _D2C.assigned
        /\ _D1F.assigned
        /\ _D2F.assigned

(***************************************************************************)
(* C10, as stated.  If the supply voltage exceeds every threshold of the   *)
(* table (voltage greater than 5), no interval is selected and _D1C and    *)
(* _D1F remain unset.                                                      *)
(***************************************************************************)
C10_UnsetAboveTable ==
    voltage > At(vals, 0) => ~ _D1C.assigned /\ ~ _D1F.assigned

(***************************************************************************)
(* C10, amended.  If the supply voltage does not exceed the lowest         *)
(* threshold of the table (voltage at most 2.5), no interval is selected   *)
(* and _D1C and _D1F remain unset; a voltage greater than 5 selects the    *)
(* first interval, between 5 and 4, and both offsets are assigned from it. *)
(***************************************************************************)
C10_UnsetAtOrBelowTable ==
    /\ voltage <= At(vals, VALS_IN_TABLE - 1) =>
          ~ _D1C.assigned /\ ~ _D1F.assigned
    /\ voltage > At(vals, VALS_IN_TABLE - 1) =>
          _D1C.assigned /\ _D1F.assigned
    /\ voltage > At(vals, 0) =>
          /\ _D1C = Assigned(- (((401 - 398) * voltage * (Scale \div 10)) \div 20
                                + 398 * (Scale \div 10)))
          /\ _D1F = Assigned(- (((402 - 396) * voltage * (Scale \div 10)) \div 20
                                + 396 * (Scale \div 10)))

\* a conversion has run on an instance constructed with 2.25 V
C10_Witness ==
    /\ voltage < At(vals, VALS_IN_TABLE - 1)
    /\ ~ _D1C.assigned
    /\ ~ _D1F.assigned
    /\ call = "parseTemperatureC"
    /\ pc = "done"

(***************************************************************************)
(* C11.  _setConversionCoeffs selects the first interval, scanning from    *)
(* the high voltages to the low ones, whose lower bound vals[i] the        *)
(* voltage strictly exceeds, and sets the offsets from the coefficients    *)
(* i-1 and i that bracket it; a voltage of exactly 5 gets the pair of the  *)
(* interval between 5 and 4, as a voltage just above 4 does.               *)
(***************************************************************************)
\* the intervals 1..VALS_IN_TABLE-1 whose lower bound v strictly exceeds
Exceeded(v) == {i \in 1..(VALS_IN_TABLE - 1) : v > At(vals, i)}

C11_FirstExceededInterval ==
    /\ \A i \in Exceeded(voltage) :
          (\A j \in Exceeded(voltage) : i <= j) =>
              /\ _D1C = Assigned(- _linearInterpolation(At(coeffsC, i - 1),
                                     At(coeffsC, i), At(vals, i - 1), voltage))
              /\ _D1F = Assigned(- _linearInterpolation(At(coeffsF, i - 1),
                                     At(coeffsF, i), At(vals, i - 1), voltage))
    /\ (voltage > Volts(4) /\ voltage <= Volts(5)) =>
          /\ _D1C.val = - (((401 - 398) * voltage * 8400) \div 20 + 398 * 8400)
          /\ _D1F.val = - (((402 - 396) * voltage * 8400) \div 20 + 396 * 8400)

\* a conversion on the instance constructed with exactly 5 V, whose Celsius
\* offset is -40.1
C11_Witness ==
    /\ voltage = Volts(5)
    /\ _D1C = Assigned(- 401 * 8400)
    /\ call = "parseTemperatureC"
    /\ pc = "done"
    /\ raw = 0
    /\ result.value = - 401 * 8400

(***************************************************************************)
(* C12.  The interpolated offset is continuous across the breakpoints of   *)
(* the table: at each interior breakpoint voltage (4, 3.5 and 3) the       *)
(* offset -((coeffA - coeffB) / valA * voltage + coeffB) of the interval   *)
(* just above the breakpoint and that of the interval just below it are    *)
(* equal, for the Celsius and the Fahrenheit table; so the offset of an    *)
(* instance constructed at a breakpoint, which the code takes from the     *)
(* interval below, and the temperature it converts raw = 0 to, are the     *)
(* value of the interval above.                                            *)
(***************************************************************************)
\* the offset of interval i (between vals[i-1] and vals[i]) at voltage v
OffsetIn(table, i, v) ==
    - _linearInterpolation(At(table, i - 1), At(table, i), At(vals, i - 1), v)

C12_ContinuousAtBreakpoints ==
    \A i \in 1..(VALS_IN_TABLE - 2) :
        (voltage = At(vals, i) /\ pc = "done" /\ raw = 0) =>
            /\ OffsetIn(coeffsC, i, voltage) = OffsetIn(coeffsC, i + 1, voltage)
            /\ OffsetIn(coeffsF, i, voltage) = OffsetIn(coeffsF, i + 1, voltage)
            /\ _D1C.val = OffsetIn(coeffsC, i, voltage)
            /\ _D1F.val = OffsetIn(coeffsF, i, voltage)
            /\ (call = "parseTemperatureC" =>
                  result.value = OffsetIn(coeffsC, i, voltage))

(***************************************************************************)
(* C13.  After construction no step of any public operation changes the    *)
(* data-pin identifier, the clock-pin identifier, the configured input     *)
(* mode of the data line or any of the four calibration coefficients, and  *)
(* every pinMode call that takes the data line out of output mode gives    *)
(* it the configured input mode.                                           *)
(***************************************************************************)
configuration ==
    << _dataPin, _clockPin, _dataInputMode, _D1C, _D2C, _D1F, _D2F >>

C13_ConfigurationIsFixed ==
    /\ [][configuration' = configuration]_vars
    /\ [](\A k \in 1..Len(trace) :
            (trace[k].op = "pinMode" /\ trace[k].pin = _dataPin) =>
                trace[k].val \in {OUTPUT, _dataInputMode})
    /\ [](pc \in {"poll", "getData"} => pins[_dataPin].mode = _dataInputMode)

\* a humidity read on an instance configured with the internal pull-up has
\* switched the data line to input four times
C13_Witness ==
    /\ _dataInputMode = INPUT_PULLUP
    /\ call = "readHumidity"
    /\ pc = "done"
    /\ Cardinality({k \in 1..Len(trace) :
                      trace[k] = pinMode(_dataPin, INPUT_PULLUP)}) = 4

(***************************************************************************)
(* C14.  Idempotence of temperature reads: when readTemperatureC is        *)
(* called twice in succession on the same instance and the sensor          *)
(* presents the same 16-bit value in both transactions, the second call    *)
(* returns what the first returned, and the cached raw temperature after   *)
(* the second call is the one after the first.                             *)
(***************************************************************************)
C14_ReadTwiceSame ==
    (/\ call = "readTemperatureC"
     /\ pc = "done"
     /\ previous.call = "readTemperatureC"
     /\ previous.sample = sample) =>
        /\ result = previous.result
        /\ _temperatureRaw = previous.temperatureRaw

\* the second of two reads of the pattern 6699, the first of which saw the
\* device ready and the second of which timed out
C14_Witness ==
    /\ call = "readTemperatureC"
    /\ pc = "done"
    /\ previous.call = "readTemperatureC"
    /\ previous.sample = 6699
    /\ sample = 6699
    /\ waitExit = "timeout"
    /\ result = previous.result
    /\ result.value = 6699 * 840 + _D1C.val
    /\ _temperatureRaw = 6699

(***************************************************************************)
(* C15.  In getData16SHT, between the 8th and the 9th sample of the data   *)
(* line there is exactly one acknowledgment: after the clock fall that     *)
(* ends the 8th sample the data line is switched to output, written high   *)
(* then low, the clock is written high then low once, with the data line   *)
(* in output mode and low at both writes, and the data line is switched    *)
(* back to the configured input mode; the next call is the clock rise of   *)
(* the 9th sample, taken with the data line in that input mode.            *)
(***************************************************************************)
\* the index in calls of the n-th digitalRead
NthRead(calls, n) ==
    CHOOSE k \in 1..Len(calls) :
        /\ calls[k].op = "digitalRead"
        /\ Cardinality({j \in 1..k : calls[j].op = "digitalRead"}) = n

\* the calls of the getData16SHT that has just returned
LastGetData ==
    LET n == Len(getData16SHT(_dataPin, _clockPin, _dataInputMode, 0, 0,
                              intBits).calls)
    IN  SubSeq(trace, Len(trace) - n + 1, Len(trace))

C15_MidFrameAck ==
    pc = "skipCrc" =>
        LET g  == LastGetData
            r8 == NthRead(g, 8)
            r9 == NthRead(g, 9)
        IN  /\ SubSeq(g, r8 + 1, r9 - 1) =
                 << digitalWrite(_clockPin, LOW),
                    pinMode(_dataPin, OUTPUT),
                    digitalWrite(_dataPin, HIGH),
                    digitalWrite(_dataPin, LOW),
                    digitalWrite(_clockPin, HIGH),
                    digitalWrite(_clockPin, LOW),
                    pinMode(_dataPin, _dataInputMode),
                    digitalWrite(_clockPin, HIGH) >>
            /\ \A k \in (r8 + 1)..(r9 - 1) :
                  (g[k].op = "digitalWrite" /\ g[k].pin = _clockPin
                   /\ k \notin {r8 + 1, r9 - 1}) =>
                      /\ PinsBefore(pins, g, k)[_dataPin].mode = OUTPUT
                      /\ PinsBefore(pins, g, k)[_dataPin].level = LOW
            /\ PinsBefore(pins, g, r9)[_dataPin].mode = _dataInputMode
            /\ PinsBefore(pins, g, r9)[_clockPin].level = HIGH

\* readInHumidity has read the pattern 0x8001 on a pull-up instance
C15_Witness ==
    /\ pc = "skipCrc"
    /\ call = "readInHumidity"
    /\ _dataInputMode = INPUT_PULLUP
    /\ sample = 32769
    /\ LastGetData[NthRead(LastGetData, 1)].val = HIGH
    /\ LastGetData[NthRead(LastGetData, 8)].val = LOW
    /\ LastGetData[NthRead(LastGetData, 16)].val = HIGH

(***************************************************************************)
(* C16.  skipCrcSHT ends the transaction without CRC: its calls are both   *)
(* lines to output, data high, clock high, clock low, so the one clock     *)
(* pulse is made with the data line driven high; from the last sample of   *)
(* the low byte to the return of the operation the data line is not        *)
(* sampled, nothing is done on the lines between operations, and an        *)
(* operation that sends a command samples the data line only after the     *)
(* start sequence and the eight command bits.                              *)
(***************************************************************************)
\* the indices of the digitalRead calls among calls
ReadsIn(calls) == {k \in 1..Len(calls) : calls[k].op = "digitalRead"}

SkipCrcDone == \E k \in 1..Len(phases) : phases[k] = "skipCrcSHT"

RECURSIVE Accumulated(_)
Accumulated(bits) ==
    IF bits = << >> THEN 0
    ELSE 2 * Accumulated(SubSeq(bits, 1, Len(bits) - 1)) + bits[Len(bits)]

PinLevels(p) == [q \in DOMAIN p |-> p[q].level]

C18_NoEarlyReturn ==
    /\ [](pc = "waited" =>
            \/ waitExit = "ready"
            \/ /\ waitExit = "timeout"
               /\ ~ Less32(Sub32(now, start), TIMEOUT_MILLIS))
    /\ [][ /\ (pc = "poll" /\ pc' # "poll") =>
                 /\ pc' = "waited"
                 /\ start' = start
                 /\ waitExit' \in {"ready", "timeout"}
                 /\ (waitExit' = "ready" => now' = now)
           /\ (pc = "poll" /\ pc' = "poll") =>
                 /\ start' = start
                 /\ Less32(Sub32(now', start), TIMEOUT_MILLIS)
           /\ (pc \in {"poll", "waited"}) => (pins' = pins /\ trace' = trace)
           /\ (pc = "wait") =>
                 /\ trace' = Append(trace, pinMode(_dataPin, _dataInputMode))
                 /\ PinLevels(pins') = PinLevels(pins)
                 /\ pins'[_clockPin] = pins[_clockPin] ]_vars

\* the poll has timed out exactly TIMEOUT_MILLIS after an entry one
\* millisecond before the counter wraps around
C18_Witness ==
    /\ pc = "waited"
    /\ waitExit = "timeout"
    /\ start = U32(Half - 1, Half - 1)
    /\ now = U32(0, TIMEOUT_MILLIS - 1)

(***************************************************************************)
(* C19.  Line-direction discipline: in every sequence of the request,      *)
(* read-in and combined read operations, every level write to the data     *)
(* line is made while the data line is in output mode, every sample of     *)
(* the data line is taken while it is in the configured input mode, and    *)
(* every level write to the clock line is made after the clock line was    *)
(* set to output.                                                          *)
(***************************************************************************)
\* the call c, made on pins p, respects the direction of the line it uses
Disciplined(p, c) ==
    /\ (c.op = "digitalWrite" /\ c.pin = _dataPin) => p[_dataPin].mode = OUTPUT
    /\ (c.op = "digitalRead" /\ c.pin = _dataPin) =>
          p[_dataPin].mode = _dataInputMode
    /\ (c.op = "digitalWrite" /\ c.pin = _clockPin) => p[_clockPin].mode = OUTPUT

C19_LineDirection ==
    /\ [][ Len(trace') > Len(trace) =>
             LET made == SubSeq(trace', Len(trace) + 1, Len(trace'))
             IN  /\ pins' = PinsAfter(pins, made)
                 /\ \A k \in 1..Len(made) :
                       Disciplined(PinsBefore(pins, made, k), made[k]) ]_vars
    /\ [](pc = "poll" => pins[_dataPin].mode = _dataInputMode)

\* a read-in called first on a new instance has polled the data line and
\* is about to sample it; the clock line has not been set to output yet
C19_Witness ==
    /\ call = "readInHumidity"
    /\ pc = "getData"
    /\ _dataInputMode = INPUT_PULLUP
    /\ trace = << pinMode(_dataPin, INPUT_PULLUP) >>
    /\ pins[_dataPin].mode = INPUT_PULLUP
    /\ pins[_clockPin].mode = INPUT

(***************************************************************************)
(* C20.  The clock idles low between primitives: the last level that       *)
(* sendCommandSHT, getData16SHT and skipCrcSHT each write to the clock     *)
(* line is low, so the clock line is low whenever a primitive or an        *)
(* operation begins or has returned, and every start sequence finds the    *)
(* clock low and first raises it.                                          *)
(***************************************************************************)
\* the digitalWrite calls on the clock line among calls
ClockWrites(calls) ==
    {k \in 1..Len(calls) :
        calls[k].op = "digitalWrite" /\ calls[k].pin = _clockPin}

C20_ClockIdlesLow ==
    /\ [](pins[_clockPin].level = LOW)
    /\ [][ (pc \in {"send", "getData", "skipCrc"}) =>
             LET made == SubSeq(trace', Len(trace) + 1, Len(trace'))
                 w    == ClockWrites(made)
             IN  /\ w # {}
                 /\ \A k \in w : (\A j \in w : j <= k) => made[k].val = LOW
                 /\ \A k \in w : (\A j \in w : k <= j) => made[k].val = HIGH ]_vars

\* the instance is idle after a request: the clock line is an output at
\* low, the data line is left as an input
C20_Witness ==
    /\ pc = "idle"
    /\ pins[_clockPin] = [mode |-> OUTPUT, level |-> LOW]
    /\ pins[_dataPin].mode = INPUT_PULLUP
    /\ _dataInputMode = INPUT_PULLUP

====
